---------------------------- MODULE Spec2Model ----------------------------
(***************************************************************************)
(* The Stranger's Ledger (src/app.py): a Streamlit reading tracker.  One   *)
(* JSON file holds the collection of book records, a directory holds the   *)
(* cover images, a text file collects saved recommendations.  Every        *)
(* browser session runs the script top to bottom on each interaction:      *)
(* login handler, _load_db(), then the handler of the one widget that was  *)
(* clicked.                                                                *)
(*                                                                         *)
(* Text is modelled as a sequence of characters, each character a          *)
(* one-letter string ("EMDASH" names the character U+2014), so that        *)
(* strip, lower, split, join, sorted and the substring test are computed   *)
(* and not assumed.  Python's None is the empty tuple, an optional value   *)
(* v is <<v>>.                                                             *)
(***************************************************************************)
EXTENDS Integers, Sequences, FiniteSets, TLC

VARIABLES
    file,       \* books_db.json: the persisted collection (absent = <<>>)
    covers,     \* the cover files that exist under covers/
    recolog,    \* reading_recommendations.txt: the entries appended so far
    can_edit,   \* st.session_state.can_edit of every session
    pc,         \* where every session's script run is: "idle" | "loaded"
    db,         \* the collection every session's current run has loaded
    ui,         \* the message the last handler of every session displayed
    nextId,     \* how many uuid4 record ids have been drawn
    nextCover,  \* how many cover file names have been drawn
    now,        \* datetime.now(), to the second
    args,       \* the inputs of the pure function under study
    result      \* what it returned

vars == <<file, covers, recolog, can_edit, pc, db, ui, nextId, nextCover,
          now, args, result>>

-----------------------------------------------------------------------------
(* Bounds of the model.                                                    *)

MaxIds == 1        \* record ids drawn in one behaviour
MaxCovers == 1     \* cover files uploaded in one behaviour
MaxTime == 1       \* seconds the clock advances in one behaviour
MaxLog == 1        \* recommendation entries appended in one behaviour
MaxLib == 3        \* records of a library that exists when a session starts
MaxLen == 3        \* records of a collection handed to the library filter
MaxExtra == 2      \* read records beyond the seed cap handed to the builder

-----------------------------------------------------------------------------
(* Text.                                                                   *)

None == <<>>

\* The characters the inputs use, in code point order.
CharOrder ==
    <<" ", ",", "-", "1", "7", ":", "A", "B", "D", "F", "N", "U", "[", "]",
      "a", "b", "c", "d", "e", "f", "g", "h", "i", "j", "k", "l", "m", "n",
      "o", "p", "q", "r", "s", "t", "u", "v", "w", "x", "y", "z", "EMDASH">>

Ord(c) == CHOOSE i \in 1..Len(CharOrder) : CharOrder[i] = c

\* str.lower() on one character
LowerChar(c) ==
    CASE c = "A" -> "a"
      [] c = "B" -> "b"
      [] c = "D" -> "d"
      [] c = "F" -> "f"
      [] c = "N" -> "n"
      [] c = "U" -> "u"
      [] OTHER -> c

lower(s) == [i \in 1..Len(s) |-> LowerChar(s[i])]

IsSpace(c) == c = " "

RECURSIVE lstrip(_)
lstrip(s) == IF s # <<>> /\ IsSpace(Head(s)) THEN lstrip(Tail(s)) ELSE s

RECURSIVE rstrip(_)
rstrip(s) ==
    IF s # <<>> /\ IsSpace(s[Len(s)]) THEN rstrip(SubSeq(s, 1, Len(s) - 1))
    ELSE s

\* str.strip()
strip(s) == rstrip(lstrip(s))

\* needle in hay
Contains(hay, needle) ==
    \E i \in 0..(Len(hay) - Len(needle)) :
        SubSeq(hay, i + 1, i + Len(needle)) = needle

\* s.split(","): the pieces between the commas, empty pieces included
RECURSIVE SplitFrom(_, _, _)
SplitFrom(s, i, cur) ==
    IF i > Len(s) THEN <<cur>>
    ELSE IF s[i] = "," THEN <<cur>> \o SplitFrom(s, i + 1, <<>>)
    ELSE SplitFrom(s, i + 1, Append(cur, s[i]))

split(s) == SplitFrom(s, 1, <<>>)

\* sep.join(parts)
RECURSIVE join(_, _)
join(sep, parts) ==
    IF parts = <<>> THEN <<>>
    ELSE IF Len(parts) = 1 THEN parts[1]
    ELSE parts[1] \o sep \o join(sep, Tail(parts))

\* a < b for str: by code point, a proper prefix first
RECURSIVE StrLess(_, _)
StrLess(a, b) ==
    IF b = <<>> THEN FALSE
    ELSE IF a = <<>> THEN TRUE
    ELSE IF Head(a) = Head(b) THEN StrLess(Tail(a), Tail(b))
    ELSE Ord(Head(a)) < Ord(Head(b))

\* sorted(list(S)) for a set of str
RECURSIVE sorted(_)
sorted(S) ==
    IF S = {} THEN <<>>
    ELSE LET m == CHOOSE x \in S : \A y \in S \ {x} : StrLess(x, y)
         IN  <<m>> \o sorted(S \ {m})

Range(s) == {s[i] : i \in 1..Len(s)}

\* [t.strip() for t in text.split(",") if t.strip()]
TagList(text) ==
    LET parts == split(text)
        kept == SelectSeq(parts, LAMBDA t : strip(t) # <<>>)
    IN  [i \in 1..Len(kept) |-> strip(kept[i])]


-----------------------------------------------------------------------------
(* The data layer.                                                         *)

\* {**a, **b}: b's keys win
Merge(a, b) ==
    [k \in (DOMAIN a) \cup (DOMAIN b) |-> IF k \in DOMAIN b THEN b[k] ELSE a[k]]

\* d.get(k, dflt)
Get(d, k, dflt) == IF k \in DOMAIN d THEN d[k] ELSE dflt

Min(a, b) == IF a < b THEN a ELSE b
Max(a, b) == IF a > b THEN a ELSE b

\* the defaults dict of _ensure_defaults, built at time t with fresh id uuid
Defaults(uuid, t) ==
    [id |-> uuid, title |-> <<>>, author |-> <<>>, status |-> "to_read",
     progress |-> 0, favorite |-> FALSE, tags |-> <<>>, cover_path |-> None,
     rating |-> None, notes |-> <<>>, created_at |-> t, updated_at |-> t]

\* merged["tags"] = sorted(list({t.strip() for t in tags if t.strip()}))
NormTags(tags) ==
    sorted({strip(tags[i]) : i \in {j \in 1..Len(tags) : strip(tags[j]) # <<>>}})

\* merged["progress"] = max(0, min(100, int(progress or 0)))
ClampProgress(p) == Max(0, Min(100, p))

\* a variant that keeps the whole-call timestamp: stamps updated_at always
ensure_defaults_stamping(book, uuid, t) ==
    LET merged == Merge(Defaults(uuid, t), book)
        m1 == [merged EXCEPT !.tags = NormTags(merged.tags),
                             !.progress = ClampProgress(merged.progress),
                             !.updated_at = t]
    IN  IF m1.progress >= 100 THEN [m1 EXCEPT !.status = "read"] ELSE m1

\* _ensure_defaults(book), called at time t; uuid is the id uuid4() draws
ensure_defaults(book, uuid, t) ==
    LET merged == Merge(Defaults(uuid, t), book)
        m1 == [merged EXCEPT !.tags = NormTags(merged.tags),
                             !.progress = ClampProgress(merged.progress)]
    IN  IF m1.progress >= 100 THEN [m1 EXCEPT !.status = "read"] ELSE m1

\* _find_by_id(db, bid): the index of the first record with that id, 0 if none
find_by_id(d, bid) ==
    IF \E i \in 1..Len(d) : d[i].id = bid
    THEN CHOOSE i \in 1..Len(d) : d[i].id = bid /\ \A j \in 1..(i - 1) : d[j].id # bid
    ELSE 0

\* _load_db(): what a run reads; a missing file reads as the empty list
load_db == file

\* a save that keeps the records of the file which data does not hold
save_db_merging(data) ==
    data \o SelectSeq(file, LAMBDA x : \A i \in 1..Len(data) : data[i].id # x.id)

\* _save_db(data): the whole collection overwrites the file
save_db(data) == data

\* the index of every record of d, as a list
Indices(d) == [i \in 1..Len(d) |-> i]

-----------------------------------------------------------------------------
(* Library filter (tab_library).  The filtered list holds references to    *)
(* the records of db: here, their indices in db.                           *)

\* {t.strip().lower() for t in tag_filter.split(",") if t.strip()}
wanted(tag_filter) ==
    {lower(strip(t)) : t \in {u \in Range(split(tag_filter)) : strip(u) # <<>>}}

\* a filter that compares the wanted tags with the record's tags as stored
filteredIdxCaseSensitive(d, q, tag_filter, fav_only, status_pick) ==
    LET f0 == Indices(d)
        qlow == lower(strip(q))
        f1 == IF q # <<>>
              THEN SelectSeq(f0, LAMBDA i :
                       \/ Contains(lower(d[i].title), qlow)
                       \/ Contains(lower(d[i].author), qlow))
              ELSE f0
        f2 == IF strip(tag_filter) # <<>>
              THEN SelectSeq(f1, LAMBDA i : wanted(tag_filter) \subseteq Range(d[i].tags))
              ELSE f1
        f3 == IF fav_only THEN SelectSeq(f2, LAMBDA i : d[i].favorite) ELSE f2
        f4 == IF status_pick # "All"
              THEN SelectSeq(f3, LAMBDA i : d[i].status = status_pick)
              ELSE f3
    IN  f4

filteredIdx(d, q, tag_filter, fav_only, status_pick) ==
    LET f0 == Indices(d)
        qlow == lower(strip(q))
        f1 == IF q # <<>>
              THEN SelectSeq(f0, LAMBDA i :
                       \/ Contains(lower(d[i].title), qlow)
                       \/ Contains(lower(d[i].author), qlow))
              ELSE f0
        f2 == IF strip(tag_filter) # <<>>
              THEN SelectSeq(f1, LAMBDA i :
                       wanted(tag_filter) \subseteq
                           {lower(t) : t \in Range(d[i].tags)})
              ELSE f1
        f3 == IF fav_only THEN SelectSeq(f2, LAMBDA i : d[i].favorite) ELSE f2
        f4 == IF status_pick # "All"
              THEN SelectSeq(f3, LAMBDA i : d[i].status = status_pick)
              ELSE f3
    IN  f4

\* the records the Library tab lists
filtered(d, q, tag_filter, fav_only, status_pick) ==
    LET idx == filteredIdx(d, q, tag_filter, fav_only, status_pick)
    IN  [k \in 1..Len(idx) |-> d[idx[k]]]

-----------------------------------------------------------------------------
(* Recommendation prompt (tab_reco).                                       *)

SEED_CAP == 40

\* str(n) for the ratings the inputs use
IntStr(n) == IF n = 1 THEN <<"1">> ELSE IF n = 7 THEN <<"7">> ELSE <<"1", "7">>

\* read_books = [b for b in db if b["status"] == "read"]
read_books(d) == SelectSeq(d, LAMBDA b : b.status = "read")

\* f"- {title} EMDASH {author}  [tags: {tags}]  [fav:{yes|no}]  [rating:{r or '-'}]"
seed_line(b) ==
    <<"-", " ">> \o b.title \o <<" ", "EMDASH", " ">> \o b.author
    \o <<" ", " ", "[", "t", "a", "g", "s", ":", " ">>
    \o join(<<",", " ">>, b.tags) \o <<"]">>
    \o <<" ", " ", "[", "f", "a", "v", ":">>
    \o (IF b.favorite THEN <<"y", "e", "s">> ELSE <<"n", "o">>) \o <<"]">>
    \o <<" ", " ", "[", "r", "a", "t", "i", "n", "g", ":">>
    \o (IF b.rating # None /\ b.rating[1] # 0 THEN IntStr(b.rating[1]) ELSE <<"-">>)
    \o <<"]">>

\* one line per record of read_books[:40]
seed_lines(d) ==
    LET rb == read_books(d)
        head == SubSeq(rb, 1, Min(SEED_CAP, Len(rb)))
    IN  [i \in 1..Len(head) |-> seed_line(head[i])]

\* seeds = [s for s in seed_lines if (("fav:yes" in s) if only_favs else True)]
seeds(lines, only_favs) ==
    IF only_favs
    THEN SelectSeq(lines, LAMBDA l : Contains(l, <<"f", "a", "v", ":", "y", "e", "s">>))
    ELSE lines

-----------------------------------------------------------------------------
(* What the users type and click.                                          *)

ADMIN_PASS == "s3cret"

Dune == <<"D", "u", "n", "e">>

Passwords == {"", "guess", ADMIN_PASS}
TitleInputs == {<<>>, <<" ">>, <<" ">> \o Dune}
AuthorInputs == {<<>>}
StatusInputs == {"to_read", "reading", "read"}
ProgressInputs == {0, 100}
FavoriteInputs == {FALSE}
RatingInputs == {7}
TagInputs == {<<>>, <<"b", ",", " ", "a", ",", "a", ",">>}
NotesInputs == {<<>>}
\* the sidebar: <<q, tag_filter, fav_only, status_pick>>
SidebarInputs == {<<<<>>, <<>>, FALSE, "All">>, <<<<"d">>, <<"a">>, FALSE, "read">>}

Sessions == DOMAIN can_edit

-----------------------------------------------------------------------------
(* Session state and the login handler.                                    *)

\* CAN_EDIT = st.session_state.can_edit
CAN_EDIT(s) == can_edit[s]

\* a login handler without its else branch: a wrong password changes nothing
LoginKeeps(prev, pwd) == IF pwd # "" /\ pwd = ADMIN_PASS THEN TRUE ELSE prev

\* if login_btn: can_edit = (pwd and pwd == ADMIN_PASS)
LoginOutcome(prev, pwd) == IF pwd # "" /\ pwd = ADMIN_PASS THEN TRUE ELSE FALSE

Say(s, msg) == ui' = [ui EXCEPT ![s] = msg]

\* the run ends: its db goes out of scope
Finish(s) ==
    /\ pc' = [pc EXCEPT ![s] = "idle"]
    /\ db' = [db EXCEPT ![s] = <<>>]

\* the Login button
Login(s, pwd) ==
    /\ pc[s] = "idle"
    /\ can_edit' = [can_edit EXCEPT ![s] = LoginOutcome(can_edit[s], pwd)]
    /\ Say(s, IF can_edit'[s] THEN "Admin mode enabled." ELSE "Wrong password.")
    /\ UNCHANGED <<file, covers, recolog, pc, db, nextId, nextCover, now,
                   args, result>>

\* db = _load_db(): every run reads the file before any handler
Load(s) ==
    /\ pc[s] = "idle"
    /\ pc' = [pc EXCEPT ![s] = "loaded"]
    /\ db' = [db EXCEPT ![s] = load_db]
    /\ Say(s, "")
    /\ UNCHANGED <<file, covers, recolog, can_edit, nextId, nextCover, now,
                   args, result>>

\* a run in which no button was clicked
Rerun(s) ==
    /\ pc[s] = "loaded"
    /\ Finish(s)
    /\ UNCHANGED <<file, covers, recolog, can_edit, ui, nextId, nextCover,
                   now, args, result>>

-----------------------------------------------------------------------------
(* Add / Update Book (tab_add).                                            *)

\* what the form's widgets hold when Save is pressed
FormInputs ==
    [title : TitleInputs, author : AuthorInputs, status : StatusInputs,
     progress : ProgressInputs, favorite : FavoriteInputs,
     rating : RatingInputs, tags : TagInputs, notes : NotesInputs]

\* the "Select a record to update" box: None (new record) or <<id>>, the id
\* read back from the "(id)" that ends the label (the titles and authors
\* used here hold no parenthesis)
Selections(d) == {None} \cup {<<d[i].id>> : i \in 1..Len(d)}

\* init = cur.copy() for the selected record, {} for a new one
FormInit(d, selected_id) ==
    LET i == IF selected_id = None THEN 0 ELSE find_by_id(d, selected_id[1])
    IN  IF i = 0 THEN <<>> ELSE d[i]

\* init.get("cover_path") and os.path.exists(init["cover_path"])
HasCover(b) ==
    /\ "cover_path" \in DOMAIN b
    /\ b.cover_path # None
    /\ b.cover_path[1] \in covers

\* the book dict the form builds; uuid is the id uuid4() draws
FormBook(init, f, uuid, t) ==
    [id |-> Get(init, "id", uuid), title |-> strip(f.title),
     author |-> strip(f.author), status |-> f.status, progress |-> f.progress,
     favorite |-> f.favorite,
     rating |-> IF f.rating # 0 THEN <<f.rating>> ELSE None,
     tags |-> TagList(f.tags), notes |-> strip(f.notes), updated_at |-> t]

\* the cover of the book: the uploaded file, else the one init still names
WithCover(book, init, save_path) ==
    IF save_path # None THEN Merge(book, [cover_path |-> save_path])
    ELSE IF Get(init, "cover_path", None) # None
         THEN Merge(book, [cover_path |-> init.cover_path])
         ELSE book

\* if book["progress"] >= 100: book["status"] = "read"
ReadWhenDone(book) ==
    IF book.progress >= 100 THEN [book EXCEPT !.status = "read"] ELSE book

\* the collection after the form's save: the selected record replaced, or
\* the new one appended
FormSaved(d, selected_id, book, uuid, t) ==
    IF selected_id # None
    THEN LET i == find_by_id(d, selected_id[1])
         IN  IF i = 0 THEN d
             ELSE [d EXCEPT ![i] = ensure_defaults(Merge(d[i], book), uuid, t)]
    ELSE Append(d, ensure_defaults(book, uuid, t))

\* the form's Save button
FormSubmit(s, selected_id, f, upload, remove, rm_ok) ==
    /\ pc[s] = "loaded"
    /\ Finish(s)
    /\ IF ~CAN_EDIT(s)
       THEN /\ Say(s, "View-only mode.")
            /\ UNCHANGED <<file, covers, nextId, nextCover>>
       ELSE LET d == db[s]
                init0 == FormInit(d, selected_id)
                removing == HasCover(init0) /\ remove
                covers1 == IF removing /\ rm_ok
                           THEN covers \ {init0.cover_path[1]} ELSE covers
                init == IF removing THEN [init0 EXCEPT !.cover_path = None]
                        ELSE init0
                uuid == nextId + 1
                save_path == IF upload THEN <<nextCover + 1>> ELSE None
                book == ReadWhenDone(
                            WithCover(FormBook(init, f, uuid, now), init, save_path))
            IN  IF strip(f.title) = <<>>
                THEN /\ Say(s, "Title is required.")
                     /\ covers' = covers1
                     /\ UNCHANGED <<file, nextId, nextCover>>
                ELSE /\ upload => nextCover < MaxCovers
                     /\ selected_id = None => nextId < MaxIds
                     /\ covers' = IF upload THEN covers1 \cup {nextCover + 1}
                                  ELSE covers1
                     /\ nextCover' = IF upload THEN nextCover + 1 ELSE nextCover
                     /\ nextId' = IF selected_id = None THEN nextId + 1 ELSE nextId
                     /\ file' = save_db(FormSaved(d, selected_id, book, uuid, now))
                     /\ Say(s, IF selected_id # None THEN "Record updated"
                               ELSE "New book added")
    /\ UNCHANGED <<recolog, can_edit, now, args, result>>

-----------------------------------------------------------------------------
(* Currently Reading (tab_reading).                                        *)

\* b["progress"] = int(new_prog); read at 100; updated_at refreshed
ProgressUpdated(b, new_prog, t) ==
    LET b1 == [b EXCEPT !.progress = new_prog]
        b2 == IF b1.progress >= 100 THEN [b1 EXCEPT !.status = "read"] ELSE b1
    IN  [b2 EXCEPT !.updated_at = t]

\* the Update button of the i-th record, one of those with status "reading"
ProgressUpdate(s, i, new_prog) ==
    /\ pc[s] = "loaded"
    /\ i \in 1..Len(db[s])
    /\ db[s][i].status = "reading"
    /\ Finish(s)
    /\ IF CAN_EDIT(s)
       THEN /\ file' = save_db([db[s] EXCEPT ![i] = ProgressUpdated(@, new_prog, now)])
            /\ Say(s, "Updated!")
       ELSE /\ Say(s, "Login as admin to update.")
            /\ UNCHANGED file
    /\ UNCHANGED <<covers, recolog, can_edit, nextId, nextCover, now, args, result>>

-----------------------------------------------------------------------------
(* Library (tab_library): quick edit and delete.                           *)

\* the record after the quick edit's assignments
QuickEdited(b, new_fav, new_status, new_rating, new_tags, t) ==
    [b EXCEPT !.favorite = new_fav, !.status = new_status,
              !.rating = IF new_rating # 0 THEN <<new_rating>> ELSE None,
              !.tags = TagList(new_tags), !.updated_at = t]

\* the record at index i is one the Library tab lists under sidebar sb
Listed(d, i, sb) ==
    \E k \in 1..Len(filteredIdx(d, sb[1], sb[2], sb[3], sb[4])) :
        filteredIdx(d, sb[1], sb[2], sb[3], sb[4])[k] = i

\* the quick edit's Save button of the i-th record
QuickSave(s, i, sb, new_fav, new_status, new_rating, new_tags) ==
    /\ pc[s] = "loaded"
    /\ i \in 1..Len(db[s])
    /\ Listed(db[s], i, sb)
    /\ Finish(s)
    /\ IF CAN_EDIT(s)
       THEN /\ file' = save_db([db[s] EXCEPT ![i] =
                           QuickEdited(@, new_fav, new_status, new_rating, new_tags, now)])
            /\ Say(s, "Saved.")
       ELSE /\ Say(s, "Login as admin to save.")
            /\ UNCHANGED file
    /\ UNCHANGED <<covers, recolog, can_edit, nextId, nextCover, now, args, result>>

\* a removal that drops every record with b's title
RemoveByTitle(d, b) == SelectSeq(d, LAMBDA x : x.title # b.title)

\* db.remove(b): the first element equal to b goes
Removed(d, b) ==
    LET i == CHOOSE k \in 1..Len(d) : d[k] = b /\ \A j \in 1..(k - 1) : d[j] # b
    IN  SubSeq(d, 1, i - 1) \o SubSeq(d, i + 1, Len(d))

\* the Delete button of the i-th record, one the tab lists; rm_ok: os.remove
\* did not raise (the handler swallows what it raises)
Delete(s, i, sb, rm_ok) ==
    /\ pc[s] = "loaded"
    /\ i \in 1..Len(db[s])
    /\ Listed(db[s], i, sb)
    /\ Finish(s)
    /\ IF CAN_EDIT(s)
       THEN LET b == db[s][i]
            IN  /\ covers' = IF HasCover(b) /\ rm_ok
                             THEN covers \ {b.cover_path[1]} ELSE covers
                /\ file' = save_db(Removed(db[s], b))
                /\ Say(s, "Deleted.")
       ELSE /\ Say(s, "Login as admin to delete.")
            /\ UNCHANGED <<file, covers>>
    /\ UNCHANGED <<recolog, can_edit, nextId, nextCover, now, args, result>>

-----------------------------------------------------------------------------
(* Recommendations (tab_reco): the button, the call, the save.             *)

\* the log after a handler that saves whatever the call left behind
LogAfterAlways(log, llm_ok, can, save, t) ==
    IF can /\ save THEN Append(log, [at |-> t, out |-> "out"]) ELSE log

\* reading_recommendations.txt after the handler: an entry is appended only
\* inside the try block, after the call returned
LogAfter(log, llm_ok, can, save, t) ==
    IF llm_ok /\ can /\ save THEN Append(log, [at |-> t, out |-> "out"]) ELSE log

\* what the tab shows after the handler
RecoMessage(llm_ok, can, save) ==
    IF ~llm_ok THEN "Error"
    ELSE IF can /\ save THEN "Recommendations saved."
    ELSE IF ~can THEN "Login as admin to save recommendations."
    ELSE "Recommendations"

\* the Generate Recommendations button, rendered when there are read books;
\* llm_ok: model.invoke returned, save: the Save Recommendations button,
\* which the handler asks for inside the try block, in the same run
Generate(s, only_favs, llm_ok, save) ==
    /\ pc[s] = "loaded"
    /\ read_books(db[s]) # <<>>
    /\ Len(recolog) < MaxLog \/ ~save
    /\ Finish(s)
    /\ recolog' = LogAfter(recolog, llm_ok, CAN_EDIT(s), save, now)
    /\ Say(s, RecoMessage(llm_ok, CAN_EDIT(s), save))
    /\ UNCHANGED <<file, covers, can_edit, nextId, nextCover, now, args, result>>

-----------------------------------------------------------------------------
(* The application: sessions interleave at the steps of their runs.        *)

InitApp(S) ==
    /\ file = <<>>
    /\ covers = {}
    /\ recolog = <<>>
    /\ can_edit = [s \in S |-> FALSE]
    /\ pc = [s \in S |-> "idle"]
    /\ db = [s \in S |-> <<>>]
    /\ ui = [s \in S |-> ""]
    /\ nextId = 0
    /\ nextCover = 0
    /\ now = 0
    /\ args = <<>>
    /\ result = <<>>

\* the Login button, with any password
TryLogin == \E s \in Sessions, pwd \in Passwords : Login(s, pwd)

StartRun == \E s \in Sessions : Load(s)

EndRun == \E s \in Sessions : Rerun(s)

SubmitForm ==
    \E s \in Sessions :
    \E selected_id \in Selections(db[s]), f \in FormInputs, upload \in BOOLEAN :
        \E remove \in (IF HasCover(FormInit(db[s], selected_id)) THEN BOOLEAN ELSE {FALSE}) :
            \E rm_ok \in (IF remove THEN BOOLEAN ELSE {TRUE}) :
                FormSubmit(s, selected_id, f, upload, remove, rm_ok)

UpdateProgress ==
    \E s \in Sessions :
    \E i \in 1..Len(db[s]), new_prog \in ProgressInputs : ProgressUpdate(s, i, new_prog)

SaveQuickEdit ==
    \E s \in Sessions :
    \E i \in 1..Len(db[s]), sb \in SidebarInputs, new_fav \in FavoriteInputs,
       new_status \in StatusInputs, new_rating \in RatingInputs, new_tags \in TagInputs :
        QuickSave(s, i, sb, new_fav, new_status, new_rating, new_tags)

DeleteRecord ==
    \E s \in Sessions :
    \E i \in 1..Len(db[s]), sb \in SidebarInputs :
        \E rm_ok \in (IF HasCover(db[s][i]) THEN BOOLEAN ELSE {TRUE}) :
            Delete(s, i, sb, rm_ok)

GenerateReco ==
    \E s \in Sessions :
    \E only_favs \in BOOLEAN, llm_ok \in BOOLEAN, save \in BOOLEAN :
        Generate(s, only_favs, llm_ok, save)

\* The clock is left out of the application's steps: its value reaches the
\* collection only as created_at and updated_at, which no handler reads.
Next ==
    \/ TryLogin
    \/ StartRun
    \/ EndRun
    \/ SubmitForm
    \/ UpdateProgress
    \/ SaveQuickEdit
    \/ DeleteRecord
    \/ GenerateReco

\* one admin session
Init == InitApp({1})

Spec == Init /\ [][Next]_vars

\* Two sessions.  What the two admins type is narrowed to one title and one
\* status; every handler that saves the collection is there.
RaceFormInputs ==
    {f \in FormInputs : strip(f.title) # <<>> /\ f.status = "reading" /\ f.progress = 0}

SubmitFormRace ==
    \E s \in Sessions :
    \E selected_id \in Selections(db[s]), f \in RaceFormInputs :
        FormSubmit(s, selected_id, f, FALSE, FALSE, TRUE)

SaveQuickEditRace ==
    \E s \in Sessions :
    \E i \in 1..Len(db[s]), new_tags \in TagInputs :
        QuickSave(s, i, <<<<>>, <<>>, FALSE, "All">>, FALSE, "reading", 7, new_tags)

DeleteRecordRace ==
    \E s \in Sessions :
    \E i \in 1..Len(db[s]) : Delete(s, i, <<<<>>, <<>>, FALSE, "All">>, TRUE)

NextRace ==
    \/ TryLogin
    \/ StartRun
    \/ EndRun
    \/ SubmitFormRace
    \/ UpdateProgress
    \/ SaveQuickEditRace
    \/ DeleteRecordRace

InitRace == InitApp({1, 2})

SpecRace == InitRace /\ [][NextRace]_vars

-----------------------------------------------------------------------------
(* A session that starts on a library saved earlier: records 1..MaxLib in  *)
(* any order, the odd ones titled alike and with a cover each.             *)

LibraryBook(i) ==
    ensure_defaults(
        [id |-> i, title |-> IF i % 2 = 1 THEN Dune ELSE <<"B">>,
         status |-> IF i % 2 = 1 THEN "read" ELSE "reading", rating |-> <<7>>,
         cover_path |-> IF i % 2 = 1 THEN <<i>> ELSE None], i, 0)

\* the lists of distinct elements of S, up to length n
InjSeqs(S, n) ==
    {q \in UNION {[1..k -> S] : k \in 0..n} :
        \A i, j \in 1..Len(q) : i # j => q[i] # q[j]}

Libraries == {[k \in 1..Len(q) |-> LibraryBook(q[k])] : q \in InjSeqs(1..MaxLib, MaxLib)}

CoversOf(d) == {d[i].cover_path[1] : i \in {j \in 1..Len(d) : d[j].cover_path # None}}

InitDelete ==
    /\ file \in Libraries
    /\ covers = CoversOf(file)
    /\ recolog = <<>>
    /\ can_edit = [s \in {1} |-> FALSE]
    /\ pc = [s \in {1} |-> "idle"]
    /\ db = [s \in {1} |-> <<>>]
    /\ ui = [s \in {1} |-> ""]
    /\ nextId = MaxLib
    /\ nextCover = MaxLib
    /\ now = 0
    /\ args = <<>>
    /\ result = <<>>

NextDelete ==
    \/ TryLogin
    \/ StartRun
    \/ EndRun
    \/ DeleteRecord

SpecDelete == InitDelete /\ [][NextDelete]_vars

-----------------------------------------------------------------------------
(* _ensure_defaults on its own: a book dict is normalized, and the outcome *)
(* is normalized again later.                                              *)

\* the dicts handed to _ensure_defaults: every choice of keys of these books
NormBooks ==
    LET full == [id : {7}, title : {<<" ">> \o Dune},
                 tags : {<<<<"b">>, <<" ", "a">>, <<"a">>, <<" ">>>>, <<<<"B">>, <<"A", "b">>>>},
                 progress : {-5, 50, 100, 150}, status : {"reading"},
                 updated_at : {0}]
        keys == {{}, {"title", "tags"}, {"title", "progress", "status"},
                 {"title", "progress", "updated_at"},
                 {"id", "title", "tags", "progress", "status", "updated_at"}}
    IN  {[k \in ks |-> b[k]] : b \in full, ks \in keys}

InitNorm ==
    /\ args \in {[book |-> b] : b \in NormBooks}
    /\ result = <<>>
    /\ now = 0
    /\ nextId = 0
    /\ file = <<>>
    /\ covers = {}
    /\ recolog = <<>>
    /\ can_edit = <<>>
    /\ pc = <<>>
    /\ db = <<>>
    /\ ui = <<>>
    /\ nextCover = 0

\* the clock moves on
Tick ==
    /\ now < MaxTime
    /\ now' = now + 1
    /\ UNCHANGED <<file, covers, recolog, can_edit, pc, db, ui, nextId,
                   nextCover, args, result>>

\* _ensure_defaults is called: first on the book, then on what it returned
Normalize ==
    /\ Len(result) < 2
    /\ LET book == IF result = <<>> THEN args.book ELSE result[Len(result)].merged
       IN  result' = Append(result,
                        [merged |-> ensure_defaults(book, nextId + 1, now), at |-> now])
    /\ nextId' = nextId + 1
    /\ UNCHANGED <<file, covers, recolog, can_edit, pc, db, ui, nextCover, now, args>>

NextNorm == Tick \/ Normalize

SpecNorm == InitNorm /\ [][NextNorm]_vars

-----------------------------------------------------------------------------
(* The library filter on its own: a collection and a sidebar are drawn,    *)
(* and the Library tab filters.                                            *)

fantasy == <<"f", "a", "n", "t", "a", "s", "y">>

\* four records as the form saves them
FilterBook(i) ==
    ensure_defaults(
        CASE i = 1 -> [id |-> 1, title |-> Dune, author |-> <<"F", "a">>,
                       tags |-> <<<<"F">> \o Tail(fantasy)>>, favorite |-> TRUE,
                       status |-> "read", progress |-> 100]
          [] i = 2 -> [id |-> 2, title |-> <<"B", "a", "d">>,
                       tags |-> <<fantasy, <<"s", "f">>>>, status |-> "reading",
                       progress |-> 50]
          [] i = 3 -> [id |-> 3, title |-> <<"f", "u", "n">>, author |-> <<"D", "u">>,
                       tags |-> <<<<"f", "a", "n">>>>, favorite |-> TRUE]
          [] OTHER -> [id |-> i, title |-> Dune, status |-> "read"],
        i, 0)

FilterLibraries ==
    {[k \in 1..Len(q) |-> FilterBook(q[k])] : q \in InjSeqs(1..(MaxLen + 1), MaxLen)}

\* the sidebar's widgets
FilterSpecs ==
    [q : {<<>>, <<" ">>, <<"d", "u">>, <<" ", "U", "N">>, <<"f", "a">>},
     tag_filter : {<<>>, fantasy, <<" ", "F">> \o Tail(fantasy) \o <<" ", ",", "s", "f">>,
                   <<",">>},
     fav_only : BOOLEAN,
     status_pick : {"All", "read", "reading"}]

InitFilter ==
    /\ file \in FilterLibraries
    /\ args \in FilterSpecs
    /\ result = <<>>
    /\ now = 0
    /\ nextId = MaxLen + 1
    /\ covers = {}
    /\ recolog = <<>>
    /\ can_edit = <<>>
    /\ pc = <<>>
    /\ db = <<>>
    /\ ui = <<>>
    /\ nextCover = 0

\* the Library tab computes its list from the loaded collection
ApplyFilter ==
    /\ result = <<>>
    /\ result' = <<filtered(load_db, args.q, args.tag_filter, args.fav_only,
                            args.status_pick)>>
    /\ UNCHANGED <<file, covers, recolog, can_edit, pc, db, ui, nextId,
                   nextCover, now, args>>

SpecFilter == InitFilter /\ [][ApplyFilter]_vars

-----------------------------------------------------------------------------
(* The seed list on its own: a collection of read books, one of them       *)
(* unlike the others, and the Generate handler's seeds.                    *)

favyes == <<"f", "a", "v", ":", "y", "e", "s">>

\* the records that differ from their neighbours
OddBooks ==
    {[title |-> favyes, favorite |-> FALSE, status |-> "read"],
     [title |-> Dune, favorite |-> TRUE, status |-> "reading"],
     [title |-> Dune, favorite |-> FALSE, status |-> "read", tags |-> <<favyes>>],
     [title |-> Dune, favorite |-> TRUE, status |-> "read", rating |-> <<7>>]}

\* the i-th record of a collection of read books: titles and favorite flags
\* alternate
RecoBook(i) ==
    ensure_defaults(
        [id |-> i, title |-> <<<<"a">>, <<"b">>, <<"d">>>>[(i % 3) + 1],
         favorite |-> (i % 2 = 0), status |-> "read", progress |-> 100,
         rating |-> <<1>>], i, 0)

RecoLibraries ==
    {[i \in 1..n |-> IF i = k THEN ensure_defaults(Merge([id |-> i], o), i, 0)
                     ELSE RecoBook(i)] :
        n \in 1..(SEED_CAP + MaxExtra), k \in 1..(SEED_CAP + MaxExtra), o \in OddBooks}

InitReco ==
    /\ file \in RecoLibraries
    /\ args \in [only_favs : BOOLEAN]
    /\ result = <<>>
    /\ now = 0
    /\ nextId = SEED_CAP + MaxExtra
    /\ covers = {}
    /\ recolog = <<>>
    /\ can_edit = <<>>
    /\ pc = <<>>
    /\ db = <<>>
    /\ ui = <<>>
    /\ nextCover = 0

\* the Generate handler builds the seeds of its prompt
BuildSeeds ==
    /\ result = <<>>
    /\ read_books(load_db) # <<>>
    /\ result' = <<seeds(seed_lines(load_db), args.only_favs)>>
    /\ UNCHANGED <<file, covers, recolog, can_edit, pc, db, ui, nextId,
                   nextCover, now, args>>

SpecReco == InitReco /\ [][BuildSeeds]_vars

-----------------------------------------------------------------------------
(* Claims.                                                                 *)

\* a handler of session s ran to its end in this step
HandlerRan(s) == pc[s] = "loaded" /\ pc'[s] = "idle"

\* C1: every persisted record has progress in [0,100], and one with
\* progress 100 has status "read".
C1_ProgressInvariant ==
    \A i \in 1..Len(file) :
        /\ file[i].progress \in 0..100
        /\ file[i].progress = 100 => file[i].status = "read"

\* the sorted list of the distinct non-empty trimmed pieces of text
ExpectedTags(text) ==
    LET pieces == {strip(t) : t \in Range(split(text))} \ {<<>>}
    IN  CHOOSE q \in [1..Cardinality(pieces) -> pieces] :
            /\ Range(q) = pieces
            /\ \A i \in 1..(Len(q) - 1) : StrLess(q[i], q[i + 1])

\* C2: an operation that writes a record's tags (form add, form update,
\* quick edit) persists the sorted duplicate-free list of the non-empty
\* trimmed input tags.
C2_TagsNormalized ==
    [][\A s \in Sessions :
        /\ \A selected_id \in Selections(db[s]), f \in FormInputs,
              upload \in BOOLEAN, remove \in BOOLEAN, rm_ok \in BOOLEAN :
              ( /\ CAN_EDIT(s)
                /\ strip(f.title) # <<>>
                /\ FormSubmit(s, selected_id, f, upload, remove, rm_ok) )
              => LET i == IF selected_id = None THEN Len(file')
                          ELSE find_by_id(db[s], selected_id[1])
                 IN  file'[i].tags = ExpectedTags(f.tags)
        /\ \A i \in 1..Len(db[s]), sb \in SidebarInputs, new_fav \in FavoriteInputs,
              new_status \in StatusInputs, new_rating \in RatingInputs,
              new_tags \in TagInputs :
              ( /\ CAN_EDIT(s)
                /\ QuickSave(s, i, sb, new_fav, new_status, new_rating, new_tags) )
              => file'[i].tags = ExpectedTags(new_tags)
      ]_vars

\* C3: a login with an empty or wrong password leaves can_edit false, also
\* when it was true; and no handler of a session whose can_edit is false
\* changes the collection file, the cover files or the recommendation log.
C3_ViewerCannotWrite ==
    [][\A s \in Sessions :
        /\ \A pwd \in Passwords :
              ((pwd = "" \/ pwd # ADMIN_PASS) /\ Login(s, pwd)) => ~can_edit'[s]
        /\ (~can_edit[s] /\ HandlerRan(s))
              => (file' = file /\ covers' = covers /\ recolog' = recolog)
      ]_vars

\* C3 witness: a session that was admin (it saved a record with a cover),
\* lost the right and then pressed Delete: record and cover are still there.
C3_Witness ==
    /\ ~can_edit[1]
    /\ ui[1] = "Login as admin to delete."
    /\ file # <<>>
    /\ covers # {}

\* the records of d whose id is not bid, in d's order
WithoutId(d, bid) == SelectSeq(d, LAMBDA x : x.id # bid)

UniqueIds(d) == \A i, j \in 1..Len(d) : i # j => d[i].id # d[j].id

\* what C4 says of one Delete step, apart from the cover file
DeleteExact(s, i) ==
    LET b == db[s][i]
    IN  /\ file' = WithoutId(db[s], b.id)
        /\ Len(file') = Len(db[s]) - 1
        /\ \A k \in 1..Len(file') : \E j \in 1..Len(db[s]) : file'[k] = db[s][j]
        /\ covers \ covers' \subseteq
               (IF b.cover_path # None THEN {b.cover_path[1]} ELSE {})

\* C4 as stated: Delete removes exactly the entry with that id, the others
\* stay as they are and in order, and the record's cover file is gone.
C4_DeleteRemovesCover ==
    [][\A s \in Sessions : \A i \in 1..Len(db[s]), sb \in SidebarInputs, rm_ok \in BOOLEAN :
        (CAN_EDIT(s) /\ UniqueIds(db[s]) /\ Delete(s, i, sb, rm_ok))
        => /\ DeleteExact(s, i)
           /\ db[s][i].cover_path # None => db[s][i].cover_path[1] \notin covers'
      ]_vars

\* C4 amended: as C4, but the cover file is gone unless os.remove raised,
\* which the handler swallows: then the file stays behind, orphaned.
C4_DeleteExact ==
    [][\A s \in Sessions : \A i \in 1..Len(db[s]), sb \in SidebarInputs, rm_ok \in BOOLEAN :
        (CAN_EDIT(s) /\ UniqueIds(db[s]) /\ Delete(s, i, sb, rm_ok))
        => /\ DeleteExact(s, i)
           /\ (db[s][i].cover_path # None /\ rm_ok)
                  => db[s][i].cover_path[1] \notin covers'
           /\ ~rm_ok => covers' = covers
      ]_vars

\* C4 witness: a record with a cover was deleted from a library of three:
\* the two others are left and its cover file is gone.
C4_Witness ==
    /\ ui[1] = "Deleted."
    /\ Len(file) = 2
    /\ UniqueIds(file)
    /\ Cardinality(covers) < Cardinality(CoversOf(file)) + 1
    /\ CoversOf(file) \subseteq covers
    /\ \E m \in 1..MaxLib : file[1].id # m /\ file[2].id # m /\ m % 2 = 1

\* C5: a form submitted with an empty or whitespace-only title changes
\* neither the collection file nor the cover files.
C5_EmptyTitleNoMutation ==
    [][\A s \in Sessions :
        \A selected_id \in Selections(db[s]), f \in FormInputs,
           upload \in BOOLEAN, remove \in BOOLEAN, rm_ok \in BOOLEAN :
           (strip(f.title) = <<>> /\ FormSubmit(s, selected_id, f, upload, remove, rm_ok))
           => (file' = file /\ covers' = covers)
      ]_vars

\* C6: when the text-generation call raises, the tab shows an error, the
\* collection file, the cover files and the recommendation log are as
\* before, and so is all the session carries over to its next run.
C6_FailedCallHarmless ==
    [][\A s \in Sessions : \A only_favs \in BOOLEAN, save \in BOOLEAN :
        Generate(s, only_favs, FALSE, save)
        => /\ ui'[s] = "Error"
           /\ file' = file /\ covers' = covers /\ recolog' = recolog
           /\ can_edit' = can_edit
           /\ nextId' = nextId /\ nextCover' = nextCover
           /\ pc'[s] = "idle"
      ]_vars

\* C6 witness: an admin with a read book pressed Generate and the call
\* raised: the tab shows the error and nothing was logged.
C6_Witness ==
    /\ ui[1] = "Error"
    /\ can_edit[1]
    /\ read_books(file) # <<>>
    /\ recolog = <<>>

\* e is d with one record taken out
OneRemoved(d, e) ==
    \E i \in 1..Len(d) : e = SubSeq(d, 1, i - 1) \o SubSeq(d, i + 1, Len(d))

\* e is d with at most one record changed in place
OneChanged(d, e) ==
    /\ Len(e) = Len(d)
    /\ \E i \in 1..Len(d) : \A j \in 1..Len(d) : j # i => e[j] = d[j]

\* e is d with one record appended
OneAppended(d, e) == Len(e) = Len(d) + 1 /\ SubSeq(e, 1, Len(d)) = d

\* C8: sessions race.  Whatever a handler saves is the collection its own
\* run loaded with its one mutation applied, whatever the file holds by
\* then: the last save wins, nothing is merged, and the handler reports
\* success.
C8_LastSaveWins ==
    [][\A s \in Sessions :
        (HandlerRan(s) /\ CAN_EDIT(s))
        => CASE ui'[s] = "Deleted." -> OneRemoved(db[s], file')
             [] ui'[s] = "New book added" -> OneAppended(db[s], file')
             [] ui'[s] \in {"Record updated", "Updated!", "Saved."} ->
                    OneChanged(db[s], file')
             [] OTHER -> file' = file
      ]_vars

\* C8 witness: session 1 deleted the only record ever added and session 2,
\* which had loaded it before, saved a progress update after: the record
\* is back in the file, the deletion is lost, and both were told it worked.
C8_Witness ==
    /\ DOMAIN can_edit = {1, 2}
    /\ ui[1] = "Deleted."
    /\ ui[2] = "Updated!"
    /\ nextId = 1
    /\ Len(file) = 1
    /\ file[1].progress = 100

\* b with updated_at taken out
SansUpdated(b) == [k \in DOMAIN b \ {"updated_at"} |-> b[k]]

RequestedTags(text) == {strip(t) : t \in Range(split(text))} \ {<<>>}

\* record b meets every active criterion of sidebar a; the text query
\* counts without the blanks around it
Matches(b, a) ==
    /\ a.q # <<>> =>
           \/ \E i \in 0..Len(b.title) : \E j \in i..Len(b.title) :
                  lower(SubSeq(b.title, i + 1, j)) = lower(strip(a.q))
           \/ \E i \in 0..Len(b.author) : \E j \in i..Len(b.author) :
                  lower(SubSeq(b.author, i + 1, j)) = lower(strip(a.q))
    /\ \A w \in RequestedTags(a.tag_filter) :
           \E k \in 1..Len(b.tags) : lower(b.tags[k]) = lower(w)
    /\ a.fav_only => b.favorite
    /\ a.status_pick # "All" => b.status = a.status_pick

\* C10: the library filter returns exactly the records that meet every
\* active criterion, in the collection's order; asked for the tag
\* "fantasy", it returns only records with a tag that is "fantasy" up to case.
C10_FilterExact ==
    result # <<>> =>
        /\ result[1] = SelectSeq(file, LAMBDA b : Matches(b, args))
        /\ \E pos \in [1..Len(result[1]) -> 1..Len(file)] :
               /\ \A k \in 1..Len(result[1]) : file[pos[k]] = result[1][k]
               /\ \A k \in 1..(Len(result[1]) - 1) : pos[k] < pos[k + 1]
        /\ fantasy \in {lower(w) : w \in RequestedTags(args.tag_filter)} =>
               \A k \in 1..Len(result[1]) :
                   \E t \in Range(result[1][k].tags) : lower(t) = fantasy

\* C10 witness: asked for "fantasy", the filter kept the first and the last
\* of three records, one tagged "Fantasy", and dropped the one between.
C10_Witness ==
    /\ result # <<>>
    /\ args.tag_filter = fantasy
    /\ Len(file) = 3
    /\ result[1] = <<file[1], file[3]>>
    /\ \E k \in 1..2 : fantasy \notin Range(result[1][k].tags)

\* C7: the seeds are the lines of the first 40 records with status "read",
\* in the collection's order, and with favorites-only those of the records
\* among them whose favorite flag is set, and of no other.
C7_SeedsAreFavorites ==
    result # <<>> =>
        LET rb == SelectSeq(file, LAMBDA b : b.status = "read")
            first == [i \in 1..Min(SEED_CAP, Len(rb)) |-> rb[i]]
            kept == IF args.only_favs THEN SelectSeq(first, LAMBDA b : b.favorite)
                    ELSE first
        IN  result[1] = [i \in 1..Len(kept) |-> seed_line(kept[i])]

\* C11: after every step of an admin session, each persisted record whose
\* cover_path is not null names a cover file that exists; and a form saved
\* with "Remove current cover" checked, a valid title and no upload persists
\* the selected record with cover_path null.
C11_CoverPathsExist ==
    [][/\ \A i \in 1..Len(file') :
              file'[i].cover_path # None => file'[i].cover_path[1] \in covers'
       /\ \A s \in Sessions :
              \A selected_id \in Selections(db[s]), f \in FormInputs, rm_ok \in BOOLEAN :
                  ( /\ CAN_EDIT(s)
                    /\ selected_id # None
                    /\ HasCover(FormInit(db[s], selected_id))
                    /\ strip(f.title) # <<>>
                    /\ FormSubmit(s, selected_id, f, FALSE, TRUE, rm_ok) )
                  => file'[find_by_id(db[s], selected_id[1])].cover_path = None
      ]_vars

=============================================================================
